---------------------------- MODULE Spec2Model ----------------------------
(***************************************************************************)
(* read_many (src/read-many.ts): sequential multi-file read, heredoc       *)
(* framing with collision-free delimiters, and dual-strategy packing of    *)
(* the framed blocks under the combined byte / line ceilings.              *)
(*                                                                         *)
(* Representation of JavaScript strings.  The ceilings are 2000 lines and  *)
(* 51200 bytes, so the texts that matter are long; they are kept exactly,  *)
(* in a canonical run-length encoding:                                     *)
(*   - a newline-free string (a line) is a sequence of runs                *)
(*     [c |-> UTF-16 code unit, n |-> repetitions >= 1], adjacent runs     *)
(*     having different code units;                                        *)
(*   - a list of lines is a sequence of runs                               *)
(*     [line |-> line, n |-> repetitions >= 1], adjacent runs having       *)
(*     different lines;                                                    *)
(*   - a string is the list of the lines text.split("\n") gives, which is  *)
(*     never empty: "" is the list holding one empty line.                 *)
(* Every string has exactly one encoding, so equality of strings is        *)
(* equality of encodings.  Code units are BMP, non-surrogate.              *)
(*                                                                         *)
(* Style.  A value the source keeps in a const and uses several times is   *)
(* the parameter of a local operator applied once to the expression that   *)
(* computes it (LET Block(delimiter) == ... IN Block(pickDelimiter(...))), *)
(* so that the expression occurs once in the definition.                   *)
(***************************************************************************)
EXTENDS Integers, Sequences, FiniteSets, TLC

(***************************************************************************)
(* Bounds of the model.                                                    *)
(***************************************************************************)
MaxFiles == 3

(***************************************************************************)
(* Ceilings imported from the host (src/read-many.ts:11-12).               *)
(***************************************************************************)
DEFAULT_MAX_BYTES == 51200
DEFAULT_MAX_LINES == 2000

(***************************************************************************)
(* String primitives.                                                      *)
(***************************************************************************)
Run(c, n) == [c |-> c, n |-> n]

Last(s) == s[Len(s)]

Front(s) == SubSeq(s, 1, Len(s) - 1)

Min(S) == CHOOSE x \in S : \A y \in S : x <= y

Max(a, b) == IF a >= b THEN a ELSE b

\* f[lo] + ... + f[hi]
RECURSIVE SumRange(_, _, _)
SumRange(f, lo, hi) ==
    IF lo > hi THEN 0
    ELSE IF lo = hi THEN f[lo]
    ELSE LET mid == (lo + hi) \div 2
         IN  SumRange(f, lo, mid) + SumRange(f, mid + 1, hi)

\* a + b for two newline-free strings
Cat(a, b) ==
    IF a = <<>> THEN b
    ELSE IF b = <<>> THEN a
    ELSE IF Last(a).c = Head(b).c
         THEN Front(a) \o <<Run(Head(b).c, Last(a).n + Head(b).n)>> \o Tail(b)
         ELSE a \o b

\* the one-unit string
Chr(c) == <<Run(c, 1)>>

\* the newline-free string with the given code units
RECURSIVE Str(_)
Str(codes) ==
    IF codes = <<>> THEN <<>>
    ELSE IF Len(codes) = 1 THEN Chr(codes[1])
    ELSE Cat(Str(SubSeq(codes, 1, Len(codes) \div 2)),
             Str(SubSeq(codes, Len(codes) \div 2 + 1, Len(codes))))

\* String.prototype.repeat on a one-unit string
Repeat(c, n) == IF n <= 0 THEN <<>> ELSE <<Run(c, n)>>

\* bytes of one code unit in UTF-8
Utf8Len(c) == IF c < 128 THEN 1 ELSE IF c < 2048 THEN 2 ELSE 3

\* UTF-8 bytes of a newline-free string
LineBytes(line) ==
    SumRange([k \in 1..Len(line) |-> line[k].n * Utf8Len(line[k].c)], 1, Len(line))

\* UTF-16 code units of a newline-free string
LineLen(line) == SumRange([k \in 1..Len(line) |-> line[k].n], 1, Len(line))

\* the list of n copies of a line
Lines(line, n) == IF n <= 0 THEN <<>> ELSE <<[line |-> line, n |-> n]>>

\* the string that is one line
OneLine(line) == Lines(line, 1)

\* a.concat(b) for two lists of lines
Glue(a, b) ==
    IF a = <<>> THEN b
    ELSE IF b = <<>> THEN a
    ELSE IF Last(a).line = Head(b).line
         THEN Front(a) \o Lines(Head(b).line, Last(a).n + Head(b).n) \o Tail(b)
         ELSE a \o b

\* text.split("\n").length
NumLines(text) == SumRange([k \in 1..Len(text) |-> text[k].n], 1, Len(text))

\* a list of lines without its last / first line
DropLast(text) == Front(text) \o Lines(Last(text).line, Last(text).n - 1)

DropFirst(text) == Lines(Head(text).line, Head(text).n - 1) \o Tail(text)

\* s + t for arbitrary strings: the last line of s and the first line of t
\* become one line
Concat(s, t) ==
    Glue(Glue(DropLast(s), OneLine(Cat(Last(s).line, Head(t).line))), DropFirst(t))

\* [s, t].join("\n")
JoinNL(s, t) == Glue(s, t)

\* [s, t].join("\n\n")
JoinBlank(s, t) == Glue(Glue(s, OneLine(<<>>)), t)

\* the first k lines of the runs lo..hi of a list of lines
RECURSIVE TakeRange(_, _, _, _)
TakeRange(text, lo, hi, k) ==
    IF lo > hi \/ k <= 0 THEN <<>>
    ELSE IF lo = hi
    THEN Lines(text[lo].line, IF text[lo].n < k THEN text[lo].n ELSE k)
    ELSE LET mid == (lo + hi) \div 2
             left == SumRange([j \in lo..mid |-> text[j].n], lo, mid)
         IN  IF k <= left THEN TakeRange(text, lo, mid, k)
             ELSE SubSeq(text, lo, mid) \o TakeRange(text, mid + 1, hi, k - left)

\* lines.slice(0, k)
Take(text, k) == TakeRange(text, 1, Len(text), k)

\* Buffer.byteLength(text, "utf-8")
ByteLength(text) ==
    SumRange([k \in 1..Len(text) |-> text[k].n * LineBytes(text[k].line)],
             1, Len(text))
        + (NumLines(text) - 1)

\* text.length
StrLength(text) ==
    SumRange([k \in 1..Len(text) |-> text[k].n * LineLen(text[k].line)],
             1, Len(text))
        + (NumLines(text) - 1)

\* digit of Number.prototype.toString(radix).toUpperCase()
DigitChar(d) == IF d < 10 THEN 48 + d ELSE 55 + d

\* n.toString(radix).toUpperCase(), as code units
RECURSIVE ToCodes(_, _)
ToCodes(n, radix) ==
    IF n < radix THEN <<DigitChar(n)>>
    ELSE ToCodes(n \div radix, radix) \o <<DigitChar(n % radix)>>

\* codes.padStart(width, "0")
PadStart(codes, width) ==
    IF Len(codes) >= width THEN codes
    ELSE [k \in 1..(width - Len(codes)) |-> 48] \o codes

measureText(text) == [bytes |-> ByteLength(text), lines |-> NumLines(text)]

(***************************************************************************)
(* createPathHash.  The 32-bit unsigned hash is kept as two 16-bit halves  *)
(* so that hash * 33 + code stays inside TLC's 32-bit integers; the        *)
(* arithmetic is that of ((hash << 5) + hash + code) >>> 0.                *)
(***************************************************************************)
HashStep(h, c) ==
    LET lo == h.lo * 33 + c
        hi == h.hi * 33 + (lo \div 65536)
    IN  [hi |-> hi % 65536, lo |-> lo % 65536]

RECURSIVE HashRun(_, _, _)
HashRun(h, c, n) ==
    IF n = 0 THEN h
    ELSE IF n = 1 THEN HashStep(h, c)
    ELSE LET half == HashRun(h, c, n \div 2)
         IN  \* the test makes TLC compute half before going on
             IF half.lo >= 0 THEN HashRun(half, c, n - (n \div 2)) ELSE half

RECURSIVE HashLine(_, _)
HashLine(h, line) ==
    IF line = <<>> THEN h
    ELSE HashLine(HashRun(h, Head(line).c, Head(line).n), Tail(line))

\* the loop over the code units of n copies of a line, each but the very first
\* line of the string preceded by its "\n"
RECURSIVE HashLines(_, _, _, _)
HashLines(h, line, n, first) ==
    IF n = 0 THEN h
    ELSE HashLines(HashLine(IF first THEN h ELSE HashStep(h, 10), line),
                   line, n - 1, FALSE)

RECURSIVE HashText(_, _, _)
HashText(h, text, k) ==
    IF k > Len(text) THEN h
    ELSE HashText(HashLines(h, text[k].line, text[k].n, k = 1), text, k + 1)

createPathHash(path) ==
    LET h == HashText([hi |-> 0, lo |-> 5381], path, 1)
        hex == IF h.hi = 0 THEN ToCodes(h.lo, 16)
               ELSE ToCodes(h.hi, 16) \o PadStart(ToCodes(h.lo, 16), 4)
    IN  Str(SubSeq(PadStart(hex, 6), 1, 6))

(***************************************************************************)
(* Delimiter allocation (buildLineSet, pickDelimiter) and block framing.   *)
(***************************************************************************)
DELIMITER_WORDS ==
    << <<80, 73, 78, 69>>,                \* PINE
       <<77, 65, 78, 71, 79>>,            \* MANGO
       <<79, 82, 66, 73, 84>>,            \* ORBIT
       <<82, 65, 86, 69, 78>>,            \* RAVEN
       <<67, 69, 68, 65, 82>>,            \* CEDAR
       <<76, 79, 84, 85, 83>>,            \* LOTUS
       <<69, 77, 66, 69, 82>>,            \* EMBER
       <<78, 79, 86, 65>>,                \* NOVA
       <<68, 85, 78, 69>>,                \* DUNE
       <<75, 73, 84, 69>>,                \* KITE
       <<84, 73, 68, 65, 76>>,            \* TIDAL
       <<81, 85, 65, 82, 84, 90>>,        \* QUARTZ
       <<65, 67, 79, 82, 78>>,            \* ACORN
       <<66, 76, 65, 90, 69>>,            \* BLAZE
       <<70, 74, 79, 82, 68>>,            \* FJORD
       <<71, 76, 89, 80, 72>>,            \* GLYPH
       <<72, 65, 82, 66, 79, 82>>,        \* HARBOR
       <<73, 86, 79, 82, 89>>,            \* IVORY
       <<74, 85, 78, 73, 80, 69, 82>>,    \* JUNIPER
       <<83, 73, 69, 82, 82, 65>>,        \* SIERRA
       <<85, 77, 66, 82, 65>>,            \* UMBRA
       <<86, 73, 79, 76, 69, 84>>,        \* VIOLET
       <<87, 73, 76, 76, 79, 87>>,        \* WILLOW
       <<88, 69, 78, 79, 78>>,            \* XENON
       <<89, 65, 82, 82, 79, 87>>,        \* YARROW
       <<90, 69, 80, 72, 89, 82>> >>      \* ZEPHYR

\* lines entered into the set as they are
StripCRNever(line) == line

\* line.replace(/\r$/, "")
StripCR(line) ==
    IF line # <<>> /\ Last(line).c = 13
    THEN IF Last(line).n > 1
         THEN Front(line) \o <<Run(13, Last(line).n - 1)>>
         ELSE Front(line)
    ELSE line

buildLineSet(content) == {StripCR(content[k].line) : k \in 1..Len(content)}

\* `${base}_${n}`
WithSuffix(base, codes) == Cat(base, Str(<<95>> \o codes))

\* the word of the 1-based position: DELIMITER_WORDS[index - 1] ?? `FILE${index}`
DelimiterWord(index) ==
    Str(IF index \in 1..Len(DELIMITER_WORDS)
        THEN DELIMITER_WORDS[index]
        ELSE <<70, 73, 76, 69>> \o ToCodes(index, 10))

\* `${word}_${index}_${hash}`
DelimiterBase(path, index) ==
    Cat(WithSuffix(DelimiterWord(index), ToCodes(index, 10) \o <<95>>),
        createPathHash(path))

\* the while (true) loop of pickDelimiter, from the given suffix on
RECURSIVE FallbackProbe(_, _, _)
FallbackProbe(fallbackBase, lineSet, suffix) ==
    LET candidate == WithSuffix(fallbackBase, ToCodes(suffix, 10))
    IN  IF candidate \notin lineSet THEN candidate
        ELSE FallbackProbe(fallbackBase, lineSet, suffix + 1)

\* the base token returned without looking at the content
pickDelimiterBaseOnly(path, index, content) == DelimiterBase(path, index)

pickDelimiter(path, index, content) ==
    LET Fallback(fallbackBase, lineSet) ==
            IF fallbackBase \notin lineSet THEN fallbackBase
            ELSE FallbackProbe(fallbackBase, lineSet, 1)
        Suffixed(base, lineSet, free) ==
            IF free # {} THEN WithSuffix(base, ToCodes(Min(free), 10))
            ELSE Fallback(WithSuffix(base, ToCodes(StrLength(content), 36)), lineSet)
        Pick(base, lineSet) ==
            IF base \notin lineSet THEN base
            ELSE Suffixed(base, lineSet,
                    {attempt \in 1..256 :
                        WithSuffix(base, ToCodes(attempt, 10)) \notin lineSet})
    IN  Pick(DelimiterBase(path, index), buildLineSet(content))

\* `@${path}\n<<'${delimiter}'\n${body}\n${delimiter}`
formatContentBlock(path, body, index) ==
    LET Block(delimiter) ==
            JoinNL(JoinNL(JoinNL(Concat(OneLine(Chr(64)), path),
                                 OneLine(Cat(Str(<<60, 60, 39>>), Cat(delimiter, Chr(39))))),
                          body),
                   OneLine(delimiter))
    IN  Block(pickDelimiter(path, index, body))

(***************************************************************************)
(* truncateHead of the host library: keep the longest prefix of whole      *)
(* lines within maxLines and maxBytes; unchanged when the text fits; empty *)
(* when the first line alone exceeds maxBytes.                             *)
(***************************************************************************)
\* the number of lines the library's line loop keeps out of the runs lo..hi,
\* when it may still keep cap lines and budget bytes, a kept line costing its
\* bytes plus one (its "\n"; the budget is maxBytes + 1 to pay for the first
\* line's).  The loop stops at the first line that does not fit, so a half
\* that does not fit whole holds the stop.
RECURSIVE KeptLines(_, _, _, _, _)
KeptLines(content, lo, hi, cap, budget) ==
    IF lo > hi \/ cap <= 0 THEN 0
    ELSE IF lo = hi
    THEN Min({content[lo].n, cap, budget \div (LineBytes(content[lo].line) + 1)})
    ELSE LET mid == (lo + hi) \div 2
             lines == SumRange([j \in lo..mid |-> content[j].n], lo, mid)
             cost == SumRange([j \in lo..mid |->
                        content[j].n * (LineBytes(content[j].line) + 1)], lo, mid)
         IN  IF lines <= cap /\ cost <= budget
             THEN lines + KeptLines(content, mid + 1, hi, cap - lines, budget - cost)
             ELSE KeptLines(content, lo, mid, cap, budget)

truncateHead(content, maxLines, maxBytes) ==
    LET Kept(kept) == IF kept <= 0 THEN OneLine(<<>>) ELSE Take(content, kept)
    IN  IF NumLines(content) <= maxLines /\ ByteLength(content) <= maxBytes
        THEN [content |-> content, truncated |-> FALSE]
        ELSE IF LineBytes(content[1].line) > maxBytes
        THEN [content |-> OneLine(<<>>), truncated |-> TRUE]
        ELSE [content |-> Kept(KeptLines(content, 1, Len(content), maxLines, maxBytes + 1)),
              truncated |-> TRUE]

(***************************************************************************)
(* Packing: canFitSection, addSection, buildPartialSection, buildPlan.     *)
(* An absent optional value (candidate.body, the result of                 *)
(* buildPartialSection) is <<>>, which is no string; an optional section   *)
(* is a sequence of length 0 or 1.                                         *)
(***************************************************************************)
Absent == <<>>

EmptyString == OneLine(<<>>)

\* !value for an optional string
Falsy(value) == value = Absent \/ value = EmptyString

\* canFitSection with the separator between sections left out of the test
canFitSectionNoSeparator(state, metrics) ==
    /\ state.usedBytes + metrics.bytes <= DEFAULT_MAX_BYTES
    /\ state.usedLines + metrics.lines <= DEFAULT_MAX_LINES

canFitSection(state, metrics) ==
    LET sepBytes == IF state.sectionCount > 0 THEN 2 ELSE 0
        sepLines == IF state.sectionCount > 0 THEN 1 ELSE 0
    IN  /\ state.usedBytes + sepBytes + metrics.bytes <= DEFAULT_MAX_BYTES
        /\ state.usedLines + sepLines + metrics.lines <= DEFAULT_MAX_LINES

addSection(state, metrics) ==
    LET sepBytes == IF state.sectionCount > 0 THEN 2 ELSE 0
        sepLines == IF state.sectionCount > 0 THEN 1 ELSE 0
    IN  [usedBytes |-> state.usedBytes + sepBytes + metrics.bytes,
         usedLines |-> state.usedLines + sepLines + metrics.lines,
         sectionCount |-> state.sectionCount + 1]

\* the first attempt returned without measuring it against the budget
PartialFitsAlways(metrics, remainingLines, remainingBytes) == TRUE

\* whether an attempt's block is accepted (the return inside the loop)
PartialFits(metrics, remainingLines, remainingBytes) ==
    metrics.lines <= remainingLines /\ metrics.bytes <= remainingBytes

\* the for loop of buildPartialSection, from the given attempt on
RECURSIVE PartialAttempt(_, _, _, _, _, _)
PartialAttempt(candidate, remainingLines, remainingBytes, maxBodyLines, maxBodyBytes, attempt) ==
    LET Measured(partialText, metrics) ==
            IF PartialFits(metrics, remainingLines, remainingBytes)
            THEN partialText
            ELSE PartialAttempt(candidate, remainingLines, remainingBytes,
                    IF metrics.lines > remainingLines /\ maxBodyLines > 1
                    THEN Max(1, maxBodyLines - (metrics.lines - remainingLines))
                    ELSE maxBodyLines,
                    IF metrics.bytes > remainingBytes /\ maxBodyBytes > 1
                    THEN Max(1, maxBodyBytes - (metrics.bytes - remainingBytes) - 8)
                    ELSE maxBodyBytes,
                    attempt + 1)
        Formatted(partialText) == Measured(partialText, measureText(partialText))
        Truncated(content) ==
            IF Falsy(content) THEN Absent
            ELSE Formatted(formatContentBlock(candidate.path, content,
                                              candidate.index + 1))
    IN  IF attempt >= 16 THEN Absent
        ELSE Truncated(truncateHead(candidate.body, maxBodyLines, maxBodyBytes).content)

buildPartialSection(candidate, remainingLines, remainingBytes) ==
    IF Falsy(candidate.body) THEN Absent
    ELSE IF remainingLines - 3 < 1 \/ remainingBytes < 32 THEN Absent
    ELSE PartialAttempt(candidate, remainingLines, remainingBytes,
                        remainingLines - 3, Max(1, remainingBytes - 96), 0)

\* a full-block pass that skips a miss under either strategy
StopsOnMissNever(strategy) == FALSE

\* what the full-block pass does with a candidate that does not fit:
\* TRUE stops the pass (the break), FALSE skips the candidate
StopsOnMiss(strategy) == strategy = "request-order"

\* the full-block pass of buildPlan, from position k of order on
RECURSIVE FullPass(_, _, _, _, _)
FullPass(strategy, order, candidates, k, acc) ==
    IF k > Len(order) THEN acc
    ELSE
    LET index == order[k]
        candidate == candidates[index + 1]
    IN  IF canFitSection(acc.state, candidate.fullMetrics)
        THEN FullPass(strategy, order, candidates, k + 1,
                 [state |-> addSection(acc.state, candidate.fullMetrics),
                  fullIncluded |-> acc.fullIncluded \cup {index},
                  fullSuccessCount |-> acc.fullSuccessCount
                                         + (IF candidate.ok THEN 1 ELSE 0)])
        ELSE IF StopsOnMiss(strategy) THEN acc
        ELSE FullPass(strategy, order, candidates, k + 1, acc)

\* the partial pass of buildPlan, from candidate index on
RECURSIVE PartialPass(_, _, _, _)
PartialPass(candidates, index, state, fullIncluded) ==
    IF index >= Len(candidates)
    THEN [partialSection |-> <<>>, state |-> state]
    ELSE IF index \in fullIncluded
    THEN PartialPass(candidates, index + 1, state, fullIncluded)
    ELSE
    LET sepBytes == IF state.sectionCount > 0 THEN 2 ELSE 0
        sepLines == IF state.sectionCount > 0 THEN 1 ELSE 0
        remainingBytes == DEFAULT_MAX_BYTES - state.usedBytes - sepBytes
        remainingLines == DEFAULT_MAX_LINES - state.usedLines - sepLines
        Measured(partialText, metrics) ==
            [partialSection |->
                <<[index |-> index, text |-> partialText, metrics |-> metrics]>>,
             state |-> addSection(state, metrics)]
        Built(partialText) ==
            IF Falsy(partialText)
            THEN PartialPass(candidates, index + 1, state, fullIncluded)
            ELSE Measured(partialText, measureText(partialText))
    IN  IF remainingBytes <= 0 \/ remainingLines <= 0
        THEN [partialSection |-> <<>>, state |-> state]
        ELSE Built(buildPartialSection(candidates[index + 1],
                                       remainingLines, remainingBytes))

\* an omission loop that looks at the full inclusions only
OmittedIndexesNotFull(n, fullIncluded, partialSection) ==
    SelectSeq([k \in 1..n |-> k - 1], LAMBDA i : i \notin fullIncluded)

\* the omission loop of buildPlan
OmittedIndexes(n, fullIncluded, partialSection) ==
    SelectSeq([k \in 1..n |-> k - 1],
              LAMBDA i : ~(i \in fullIncluded
                           \/ (partialSection # <<>> /\ partialSection[1].index = i)))

buildPlan(strategy, order, candidates) ==
    LET Planned(full, part) ==
            [strategy |-> strategy,
             fullIncluded |-> full.fullIncluded,
             partialSection |-> part.partialSection,
             omittedIndexes |-> OmittedIndexes(Len(candidates), full.fullIncluded,
                                               part.partialSection),
             usedBytes |-> part.state.usedBytes,
             usedLines |-> part.state.usedLines,
             sectionCount |-> part.state.sectionCount,
             fullCount |-> Cardinality(full.fullIncluded),
             fullSuccessCount |-> full.fullSuccessCount]
        Filled(full) ==
            Planned(full, PartialPass(candidates, 0, full.state, full.fullIncluded))
    IN  Filled(FullPass(strategy, order, candidates, 1,
                   [state |-> [usedBytes |-> 0, usedLines |-> 0, sectionCount |-> 0],
                    fullIncluded |-> {},
                    fullSuccessCount |-> 0]))

(***************************************************************************)
(* The two orders passed to buildPlan by execute.                          *)
(***************************************************************************)
requestOrder(candidates) == [k \in 1..Len(candidates) |-> k - 1]

\* the comparator of smallestFirstOrder is negative for (a, b)
SortsBefore(candidates, a, b) ==
    LET ma == candidates[a + 1].fullMetrics
        mb == candidates[b + 1].fullMetrics
    IN  IF ma.bytes # mb.bytes THEN ma.bytes < mb.bytes
        ELSE IF ma.lines # mb.lines THEN ma.lines < mb.lines
        ELSE a < b

\* [...requestOrder].sort(comparator): the comparator is a strict total
\* order, so the sorted array is determined by each index's rank
smallestFirstOrder(candidates) ==
    LET n == Len(candidates)
        rank(a) == Cardinality({b \in 0..(n - 1) : SortsBefore(candidates, b, a)})
    IN  [k \in 1..n |-> CHOOSE a \in 0..(n - 1) : rank(a) = k - 1]

(***************************************************************************)
(* The read primitive (readTool.execute) is the environment.  It is a stub *)
(* in the style of the unit tests' createToolWithMap: each path resolves   *)
(* to content fragments (text chunks and a number of images) or rejects    *)
(* with an error message.                                                  *)
(***************************************************************************)
PathA == OneLine(Str(<<47, 97>>))     \* "/a"
PathT == OneLine(Str(<<47, 116>>))    \* "/t"
PathH == OneLine(Repeat(112, 120))    \* "p".repeat(120)
PathE == OneLine(Str(<<47, 101>>))    \* "/e"
PathG == OneLine(Str(<<47, 103>>))    \* "/g"
PathI == OneLine(Str(<<47, 105>>))    \* "/i"

Paths == {PathT, PathH, PathE, PathG, PathI}

Ok(chunks, images) == [ok |-> TRUE, chunks |-> chunks, images |-> images]

Rejects(message) == [ok |-> FALSE, message |-> message]

ReadStub ==
    [path \in Paths |->
        CASE path = PathT ->          \* two chunks, 500 and 496 lines "x":
                                      \* a block of 999 lines, two of which fit
                Ok(<<Lines(Repeat(120, 1), 500), Lines(Repeat(120, 1), 496)>>, 0)
          [] path = PathH ->          \* 2100 lines of 30 "y": over both ceilings
                Ok(<<Lines(Repeat(121, 30), 2100)>>, 0)
          [] path = PathE ->          \* Error("boom" + "\n".repeat(997)): a block
                                      \* of 1001 lines and fewer bytes than /t's
                Rejects(Glue(OneLine(Str(<<98, 111, 111, 109>>)), Lines(<<>>, 997)))
          [] path = PathG ->          \* one line of 52000 "z", and an image
                Ok(<<OneLine(Repeat(122, 52000))>>, 1)
          [] path = PathI ->          \* an image and no text: a small block
                Ok(<<>>, 1)]

\* "Operation aborted"
AbortedMessage ==
    OneLine(Str(<<79, 112, 101, 114, 97, 116, 105, 111, 110, 32,
                  97, 98, 111, 114, 116, 101, 100>>))

(***************************************************************************)
(* execute: candidate construction.                                        *)
(***************************************************************************)
\* textChunks.join("\n")
RECURSIVE JoinChunks(_)
JoinChunks(chunks) ==
    IF chunks = <<>> THEN EmptyString
    ELSE IF Len(chunks) = 1 THEN chunks[1]
    ELSE JoinNL(chunks[1], JoinChunks(Tail(chunks)))

\* `[${imageCount} image attachment(s) omitted; use read on this file for image payload.]`
ImageNote(imageCount) ==
    OneLine(
      Cat(Cat(Str(<<91>>), Str(ToCodes(imageCount, 10))),
          Str(<<32, 105, 109, 97, 103, 101, 32, 97, 116, 116, 97, 99, 104,
                109, 101, 110, 116, 40, 115, 41, 32, 111, 109, 105, 116,
                116, 101, 100, 59, 32, 117, 115, 101, 32, 114, 101, 97, 100,
                32, 111, 110, 32, 116, 104, 105, 115, 32, 102, 105, 108, 101,
                32, 102, 111, 114, 32, 105, 109, 97, 103, 101, 32, 112, 97,
                121, 108, 111, 97, 100, 46, 93>>)))

\* "[No text content returned]"
NoTextNote ==
    OneLine(Str(<<91, 78, 111, 32, 116, 101, 120, 116, 32, 99, 111, 110, 116, 101,
                  110, 116, 32, 114, 101, 116, 117, 114, 110, 101, 100, 93>>))

\* the body of a successful read
BodyOf(chunks, imageCount) ==
    LET Noted(body) ==
            IF Falsy(body)
            THEN IF imageCount > 0 THEN ImageNote(imageCount) ELSE NoTextNote
            ELSE IF imageCount > 0 THEN JoinNL(body, ImageNote(imageCount))
            ELSE body
    IN  Noted(JoinChunks(chunks))

\* `[Error: ${message}]`
ErrorBody(message) ==
    Concat(Concat(OneLine(Str(<<91, 69, 114, 114, 111, 114, 58, 32>>)), message),
           OneLine(Chr(93)))

\* the object pushed to candidates
Candidate(i, path, ok, fullText, body) ==
    [index |-> i, path |-> path, ok |-> ok, fullText |-> fullText,
     fullMetrics |-> measureText(fullText), body |-> body]

SuccessCandidate(path, i, body) ==
    Candidate(i, path, TRUE, formatContentBlock(path, body, i + 1), body)

\* an error candidate that keeps its bracketed message as a body
ErrorCandidateWithBody(path, i, message) ==
    Candidate(i, path, FALSE, formatContentBlock(path, ErrorBody(message), i + 1), ErrorBody(message))

ErrorCandidate(path, i, message) ==
    Candidate(i, path, FALSE, formatContentBlock(path, ErrorBody(message), i + 1), Absent)

(***************************************************************************)
(* execute: strategy selection, rendering, details.                        *)
(***************************************************************************)
\* the switch decided on all fully included blocks, error blocks too
SwitchedOnFullCount(requestPlan, smallestPlan) ==
    smallestPlan.fullCount > requestPlan.fullCount

\* the switch taken whenever the two plans differ in successful coverage
SwitchedOnDifference(requestPlan, smallestPlan) ==
    smallestPlan.fullSuccessCount # requestPlan.fullSuccessCount

\* switchedForCoverage
SwitchedForCoverage(requestPlan, smallestPlan) ==
    smallestPlan.fullSuccessCount > requestPlan.fullSuccessCount

\* rendering in the order of packing: the full blocks, then the partial one
RenderSectionsInPackingOrder(plan, cands, i) ==
    [k \in 1..Cardinality(plan.fullIncluded) |->
        LET index == CHOOSE j \in plan.fullIncluded :
                        Cardinality({m \in plan.fullIncluded : m < j}) = k - 1
        IN  [index |-> index, text |-> cands[index + 1].fullText]]
    \o [k \in 1..Len(plan.partialSection) |->
        [index |-> plan.partialSection[k].index, text |-> plan.partialSection[k].text]]

\* the rendering loop, from candidate i on; each section keeps the index of
\* the candidate it renders
RECURSIVE RenderSections(_, _, _)
RenderSections(plan, cands, i) ==
    IF i >= Len(cands) THEN <<>>
    ELSE IF i \in plan.fullIncluded
    THEN <<[index |-> i, text |-> cands[i + 1].fullText]>>
         \o RenderSections(plan, cands, i + 1)
    ELSE IF plan.partialSection # <<>> /\ plan.partialSection[1].index = i
    THEN <<[index |-> i, text |-> plan.partialSection[1].text]>>
         \o RenderSections(plan, cands, i + 1)
    ELSE RenderSections(plan, cands, i + 1)

\* sections.join("\n\n")
RECURSIVE JoinSections(_)
JoinSections(sections) ==
    IF sections = <<>> THEN EmptyString
    ELSE IF Len(sections) = 1 THEN sections[1].text
    ELSE JoinBlank(sections[1].text, JoinSections(Tail(sections)))

CountOk(dets, flag) == Cardinality({k \in 1..Len(dets) : dets[k].ok = flag})

\* everything execute computes after the read loop
Packed(cands, dets) ==
    LET Returned(requestPlan, smallestPlan, switchedForCoverage, plan, sections,
                 plannedOutputText, outputTruncation) ==
            [requestPlan |-> requestPlan,
             smallestPlan |-> smallestPlan,
             plan |-> plan,
             sections |-> sections,
             plannedOutputText |-> plannedOutputText,
             text |-> outputTruncation.content,
             details |->
                [processedCount |-> Len(dets),
                 successCount |-> CountOk(dets, TRUE),
                 errorCount |-> CountOk(dets, FALSE),
                 files |-> dets,
                 packing |->
                    [strategy |-> plan.strategy,
                     switchedForCoverage |-> switchedForCoverage,
                     fullIncludedCount |-> plan.fullCount,
                     fullIncludedSuccessCount |-> plan.fullSuccessCount,
                     partialIncludedPath |->
                        IF plan.partialSection # <<>>
                        THEN cands[plan.partialSection[1].index + 1].path
                        ELSE Absent,
                     omittedPaths |->
                        [k \in 1..Len(plan.omittedIndexes) |->
                            cands[plan.omittedIndexes[k] + 1].path]],
                 combinedTruncation |-> outputTruncation.truncated]]
        Joined(requestPlan, smallestPlan, switchedForCoverage, plan, sections,
               plannedOutputText) ==
            Returned(requestPlan, smallestPlan, switchedForCoverage, plan, sections,
                     plannedOutputText,
                     truncateHead(plannedOutputText, DEFAULT_MAX_LINES, DEFAULT_MAX_BYTES))
        Rendered(requestPlan, smallestPlan, switchedForCoverage, plan, sections) ==
            Joined(requestPlan, smallestPlan, switchedForCoverage, plan, sections,
                   JoinSections(sections))
        Chosen(requestPlan, smallestPlan, switchedForCoverage, plan) ==
            Rendered(requestPlan, smallestPlan, switchedForCoverage, plan,
                     RenderSections(plan, cands, 0))
        Compared(requestPlan, smallestPlan, switchedForCoverage) ==
            Chosen(requestPlan, smallestPlan, switchedForCoverage,
                   IF switchedForCoverage THEN smallestPlan ELSE requestPlan)
        Planned(requestPlan, smallestPlan) ==
            Compared(requestPlan, smallestPlan,
                     SwitchedForCoverage(requestPlan, smallestPlan))
    IN  Planned(buildPlan("request-order", requestOrder(cands), cands),
                buildPlan("smallest-first", smallestFirstOrder(cands), cands))

(***************************************************************************)
(* execute as a state machine.  Its atomic steps are the stretches between *)
(* awaits: from the call to the first read, and from the settling of one   *)
(* read to the start of the next one, to the throw, or to the return.      *)
(***************************************************************************)
VARIABLES
    files,        \* params.files: the requested paths, in request order
    stopOnError,  \* params.stopOnError: "undefined", "false" or "true"
    aborted,      \* signal.aborted
    pc,           \* "start", "reading", "done" (returned), "thrown"
    i,            \* the loop index
    candidates,
    fileDetails,
    started,      \* history: the indexes whose read was started, in order
    out,          \* locals and return value of execute once it returned
    frame         \* SpecFrame only: one call of formatContentBlock

vars == <<files, stopOnError, aborted, pc, i, candidates, fileDetails, started, out, frame>>

RECURSIVE Requests(_)
Requests(n) ==
    IF n = 0 THEN {<<>>}
    ELSE Requests(n - 1)
         \cup {Append(r, p) : r \in {q \in Requests(n - 1) : Len(q) = n - 1}, p \in Paths}

Init ==
    /\ files \in {r \in Requests(MaxFiles) : Len(r) >= 1}
    /\ stopOnError \in {"undefined", "false", "true"}
    /\ aborted \in BOOLEAN
    /\ pc = "start"
    /\ i = 0
    /\ candidates = <<>>
    /\ fileDetails = <<>>
    /\ started = <<>>
    /\ out = <<>>
    /\ frame = <<>>

\* a catch block that never breaks / always breaks
BreaksOnErrorNever(flag) == FALSE

BreaksOnErrorAlways(flag) == TRUE

\* a loop that never looks at the signal
SignalAbortedIgnored(flag) == FALSE

\* if (params.stopOnError): the catch block breaks out of the loop
BreaksOnError(flag) == flag = "true"

\* if (signal?.aborted): the loop throws instead of starting the read
SignalAborted(flag) == flag

\* the top of the loop for index k, or the break of the catch block (broke):
\* leave the loop and return, throw, or start the read
LoopTop(k, cands, dets, broke) ==
    /\ i' = k
    /\ candidates' = cands
    /\ fileDetails' = dets
    /\ IF broke \/ k >= Len(files)
       THEN /\ pc' = "done"
            /\ out' = Packed(cands, dets)
            /\ started' = started
       ELSE IF SignalAborted(aborted)
       THEN /\ pc' = "thrown"
            /\ out' = [error |-> AbortedMessage]
            /\ started' = started
       ELSE /\ pc' = "reading"
            /\ out' = out
            /\ started' = Append(started, k)

\* execute is called
Begin ==
    /\ pc = "start"
    /\ LoopTop(0, candidates, fileDetails, FALSE)
    /\ UNCHANGED <<files, stopOnError, aborted, frame>>

\* the caller triggers the cancellation signal
Abort ==
    /\ pc \in {"start", "reading"}
    /\ ~aborted
    /\ aborted' = TRUE
    /\ UNCHANGED <<files, stopOnError, pc, i, candidates, fileDetails, started, out, frame>>

\* the awaited read resolves
ReadOk ==
    /\ pc = "reading"
    /\ \E r \in {ReadStub[files[i + 1]]} :
          /\ r.ok
          /\ \E candidate \in {SuccessCandidate(files[i + 1], i,
                                                BodyOf(r.chunks, r.images))} :
                LoopTop(i + 1,
                        Append(candidates, candidate),
                        Append(fileDetails,
                               [path |-> files[i + 1], ok |-> TRUE,
                                imageCount |-> r.images, error |-> Absent]),
                        FALSE)
    /\ UNCHANGED <<files, stopOnError, aborted, frame>>

\* the pass of the catch block with the given message
Caught(message) ==
    \E candidate \in {ErrorCandidate(files[i + 1], i, message)} :
        LoopTop(IF BreaksOnError(stopOnError) THEN i ELSE i + 1,
                Append(candidates, candidate),
                Append(fileDetails,
                       [path |-> files[i + 1], ok |-> FALSE,
                        imageCount |-> -1, error |-> message]),
                BreaksOnError(stopOnError))

\* the awaited read rejects: with the stub's error, or because the signal it
\* was handed has been triggered
ReadFail ==
    /\ pc = "reading"
    /\ \E r \in {ReadStub[files[i + 1]]} :
          \E message \in (IF r.ok THEN {} ELSE {r.message})
                           \cup (IF aborted THEN {AbortedMessage} ELSE {}) :
              Caught(message)
    /\ UNCHANGED <<files, stopOnError, aborted, frame>>

Next == Begin \/ Abort \/ ReadOk \/ ReadFail

Spec == Init /\ [][Next]_vars

(***************************************************************************)
(* SpecFrame: formatContentBlock (and with it pickDelimiter) as a pure     *)
(* function, applied to paths, positions and bodies drawn from sets that   *)
(* hold the collisions the delimiter search is written for.                *)
(***************************************************************************)
MaxPosition == 2

\* the positions execute can pass (1..26 index the dictionary) and one beyond
FramePositions == (1..MaxPosition) \cup {26, 27}

PathNL == OneLine(Str(<<47, 110>>)) \o OneLine(Str(<<120>>))    \* "/n\nx"

FramePaths == {PathA, PathH, PathNL}

\* lines base, base_1, ..., base_256
Collisions(base) ==
    OneLine(base) \o [k \in 1..256 |-> [line |-> WithSuffix(base, ToCodes(k, 10)), n |-> 1]]

\* base and its 256 suffixes, the fallback token with the given code units
\* and its suffix _1
DeepCollisions(base, fallbackCodes) ==
    Collisions(base)
    \o OneLine(WithSuffix(base, fallbackCodes))
    \o OneLine(WithSuffix(WithSuffix(base, fallbackCodes), <<49>>))

FrameBodies(path, index) ==
    LET base == DelimiterBase(path, index)
        x == OneLine(Str(<<120>>))
        cr == Str(<<13>>)
    IN  { EmptyString,
          Glue(x, OneLine(Str(<<121>>))),                          \* "x\ny"
          OneLine(base),                                           \* the base token
          Glue(Glue(x, OneLine(Cat(base, cr))), x),                \* "x\n<base>\r\nx"
          OneLine(Cat(base, Cat(cr, cr))),                         \* "<base>\r\r"
          OneLine(base) \o OneLine(WithSuffix(base, <<49>>))       \* base, base_1, base_3
                        \o OneLine(WithSuffix(base, <<51>>)),
          OneLine(Cat(Cat(Str(<<60, 60, 39>>), base), Str(<<39>>))),  \* "<<'<base>'"
          Collisions(base),
          \* the fallback token is derived from the body's own length
          DeepCollisions(base,
              ToCodes(StrLength(DeepCollisions(base, <<48, 48, 48>>)), 36)) }

InitFrame ==
    /\ files = <<>>
    /\ stopOnError = "undefined"
    /\ aborted = FALSE
    /\ pc = "frame"
    /\ i = 0
    /\ candidates = <<>>
    /\ fileDetails = <<>>
    /\ started = <<>>
    /\ out = <<>>
    /\ \E path \in FramePaths, index \in FramePositions :
          \E body \in FrameBodies(path, index) :
             frame = [path |-> path, index |-> index, body |-> body]

Format ==
    /\ pc = "frame"
    /\ pc' = "framed"
    /\ frame' = [path |-> frame.path, index |-> frame.index, body |-> frame.body,
                 delimiter |-> pickDelimiter(frame.path, frame.index, frame.body),
                 block |-> formatContentBlock(frame.path, frame.body, frame.index)]
    /\ UNCHANGED <<files, stopOnError, aborted, i, candidates, fileDetails, started, out>>

NextFrame == Format

SpecFrame == InitFrame /\ [][NextFrame]_vars

(***************************************************************************)
(* Properties.                                                             *)
(***************************************************************************)
\* the text assembled from a plan: its full blocks and its partial section,
\* joined by blank lines
Assembled(plan) == JoinSections(RenderSections(plan, candidates, 0))

WithinCeilings(text) ==
    /\ measureText(text).bytes <= DEFAULT_MAX_BYTES
    /\ measureText(text).lines <= DEFAULT_MAX_LINES

\* bytes / lines of the fully included blocks of a plan with the separators
\* between them, summed from the candidates
FullBytes(plan) ==
    SumRange([k \in 1..Len(candidates) |->
                 IF k - 1 \in plan.fullIncluded
                 THEN measureText(candidates[k].fullText).bytes ELSE 0],
             1, Len(candidates))
        + 2 * Max(0, Cardinality(plan.fullIncluded) - 1)

FullLines(plan) ==
    SumRange([k \in 1..Len(candidates) |->
                 IF k - 1 \in plan.fullIncluded
                 THEN measureText(candidates[k].fullText).lines ELSE 0],
             1, Len(candidates))
        + Max(0, Cardinality(plan.fullIncluded) - 1)

\* the fully included candidates of a plan that are successful reads
SuccessfulFull(plan) ==
    Cardinality({k \in plan.fullIncluded : candidates[k + 1].ok})

\* C1: whichever strategy is taken, the text assembled from the plan is within
\* DEFAULT_MAX_BYTES and DEFAULT_MAX_LINES; the returned text is the assembled
\* text of the chosen plan, unchanged by the final truncation, and
\* combinedTruncation is absent.
C1_OutputWithinCeilings ==
    pc = "done" =>
        /\ WithinCeilings(Assembled(out.requestPlan))
        /\ WithinCeilings(Assembled(out.smallestPlan))
        /\ out.plannedOutputText = Assembled(out.plan)
        /\ out.text = out.plannedOutputText
        /\ ~out.details.combinedTruncation

\* a full block and a partial section that together fill the line ceiling
C1_Witness ==
    /\ pc = "done"
    /\ out.plan.fullCount >= 1
    /\ out.plan.partialSection # <<>>
    /\ measureText(out.text).lines = DEFAULT_MAX_LINES

\* C2: smallest-first is chosen exactly when it fully includes strictly more
\* successful candidates than request-order (a tie or fewer keeps
\* request-order), switchedForCoverage says which was chosen, and error
\* blocks do not count.
C2_SwitchIffMoreSuccessful ==
    pc = "done" =>
        LET more == SuccessfulFull(out.smallestPlan) > SuccessfulFull(out.requestPlan)
        IN  /\ out.requestPlan.strategy = "request-order"
            /\ out.smallestPlan.strategy = "smallest-first"
            /\ out.plan = IF more THEN out.smallestPlan ELSE out.requestPlan
            /\ out.details.packing.switchedForCoverage = more
            /\ out.details.packing.strategy = out.plan.strategy

\* smallest-first fully includes more blocks, all the gain being error
\* blocks, and request-order is kept
C2_Witness ==
    /\ pc = "done"
    /\ out.smallestPlan.fullCount > out.requestPlan.fullCount
    /\ SuccessfulFull(out.smallestPlan) = SuccessfulFull(out.requestPlan)
    /\ out.plan.strategy = "request-order"

\* C3: the request-order plan fully includes exactly a prefix 0..k-1 of the
\* request, and candidate k, if there is one, is a block that does not fit
\* after that prefix.
C3_RequestOrderIsPrefix ==
    pc = "done" =>
        LET plan == out.requestPlan
            k == Cardinality(plan.fullIncluded)
            sepBytes == IF k > 0 THEN 2 ELSE 0
            sepLines == IF k > 0 THEN 1 ELSE 0
        IN  /\ plan.fullIncluded = 0..(k - 1)
            /\ k < Len(candidates) =>
                 \/ FullBytes(plan) + sepBytes + candidates[k + 1].fullMetrics.bytes
                        > DEFAULT_MAX_BYTES
                 \/ FullLines(plan) + sepLines + candidates[k + 1].fullMetrics.lines
                        > DEFAULT_MAX_LINES

\* a candidate after the first miss that smallest-first fits in full and
\* request-order leaves out
C3_Witness ==
    /\ pc = "done"
    /\ \E j \in out.smallestPlan.fullIncluded :
          /\ j > Cardinality(out.requestPlan.fullIncluded)
          /\ j \notin out.requestPlan.fullIncluded

\* the candidates a plan includes, fully or partially
Included(plan) ==
    plan.fullIncluded
        \cup {plan.partialSection[k].index : k \in 1..Len(plan.partialSection)}

\* C4: the rendered sections are those of the included candidates of the
\* chosen plan, each once, in strictly increasing request index, and the
\* output is their join.
C4_RenderedInRequestOrder ==
    pc = "done" =>
        LET s == out.sections
        IN  /\ \A a, b \in 1..Len(s) : a < b => s[a].index < s[b].index
            /\ {s[a].index : a \in 1..Len(s)} = Included(out.plan)
            /\ \A a \in 1..Len(s) :
                  s[a].text = IF s[a].index \in out.plan.fullIncluded
                              THEN candidates[s[a].index + 1].fullText
                              ELSE out.plan.partialSection[1].text
            /\ out.plannedOutputText = JoinSections(s)

\* smallest-first was chosen and its partial section is rendered before a
\* full block packed ahead of it
C4_Witness ==
    /\ pc = "done"
    /\ out.plan.strategy = "smallest-first"
    /\ out.plan.partialSection # <<>>
    /\ \E j \in out.plan.fullIncluded : out.plan.partialSection[1].index < j
    /\ Len(out.sections) >= 2

\* a plan has at most one partial section, which is within the budget left by
\* the full blocks and the separator
PartialWithinRemaining(plan) ==
    /\ Len(plan.partialSection) <= 1
    /\ plan.partialSection # <<>> =>
         LET sepBytes == IF plan.fullIncluded # {} THEN 2 ELSE 0
             sepLines == IF plan.fullIncluded # {} THEN 1 ELSE 0
             m == measureText(plan.partialSection[1].text)
         IN  /\ m.bytes <= DEFAULT_MAX_BYTES - FullBytes(plan) - sepBytes
             /\ m.lines <= DEFAULT_MAX_LINES - FullLines(plan) - sepLines

\* C5: every plan has at most one partial section, whose byte size and line
\* count do not exceed the budget remaining where it is inserted.
C5_PartialWithinRemaining ==
    pc = "done" =>
        /\ PartialWithinRemaining(out.requestPlan)
        /\ PartialWithinRemaining(out.smallestPlan)

\* a partial section after a full block, taking all the lines that remain
C5_Witness ==
    /\ pc = "done"
    /\ out.plan.fullIncluded # {}
    /\ out.plan.partialSection # <<>>
    /\ measureText(out.plan.partialSection[1].text).lines
          = DEFAULT_MAX_LINES - FullLines(out.plan) - 1

\* the lines of a string, and a line without one trailing carriage return
RawLines(text) == {text[k].line : k \in 1..Len(text)}

ChopCR(line) ==
    IF line = <<>> \/ line[Len(line)].c # 13 THEN line
    ELSE IF line[Len(line)].n = 1 THEN SubSeq(line, 1, Len(line) - 1)
    ELSE [line EXCEPT ![Len(line)].n = @ - 1]

\* C6: the delimiter chosen for a body equals no line of the body, a line
\* being taken with one trailing carriage return stripped.
C6_DelimiterIsNoLine ==
    pc = "framed" =>
        \A line \in RawLines(frame.body) :
            /\ line # frame.delimiter
            /\ ChopCR(line) # frame.delimiter

\* the body holds the base token and all of its suffixes _1 to _256
C6_Witness ==
    /\ pc = "framed"
    /\ RawLines(Collisions(DelimiterBase(frame.path, frame.index)))
          \subseteq RawLines(frame.body)

\* C7: for a path without a newline the block's first line is @<path>, its
\* second line is <<'<delimiter>', its last line is the delimiter, and the
\* lines between the second line and the first later line equal to the
\* delimiter are the body.
C7_FramedRoundTrip ==
    (pc = "framed" /\ NumLines(frame.path) = 1) =>
        LET block == frame.block
            delimiter == Last(block).line
            rest == DropFirst(DropFirst(block))
            closing == Min({k \in 1..Len(rest) : rest[k].line = delimiter})
            between == SumRange([k \in 1..Len(rest) |-> rest[k].n], 1, closing - 1)
        IN  /\ Head(block).line = Cat(Str(<<64>>), frame.path[1].line)
            /\ Head(DropFirst(block)).line
                  = Cat(Cat(Str(<<60, 60, 39>>), delimiter), Str(<<39>>))
            /\ delimiter = frame.delimiter
            /\ Take(rest, between) = frame.body

\* a body that holds the base token as a line, framed with another delimiter
C7_Witness ==
    /\ pc = "framed"
    /\ NumLines(frame.path) = 1
    /\ DelimiterBase(frame.path, frame.index) \in RawLines(frame.body)
    /\ frame.delimiter # DelimiterBase(frame.path, frame.index)

\* the failed reads recorded so far (1-based positions)
Failures == {k \in 1..Len(fileDetails) : ~fileDetails[k].ok}

\* C8: with stopOnError true, once a read has failed the operation has
\* returned: the failing file is the last one read and is recorded as an error
\* candidate, no later file was read, and processedCount is its 1-based
\* index.
C8_StopOnErrorHalts ==
    (stopOnError = "true" /\ Failures # {}) =>
        LET f == Min(Failures)
        IN  /\ pc = "done"
            /\ out.details.processedCount = f
            /\ Len(candidates) = f
            /\ ~candidates[f].ok
            /\ candidates[f].body = Absent
            /\ started = [k \in 1..f |-> k - 1]

\* the second file fails and a third one is never read
C8_Witness ==
    /\ pc = "done"
    /\ stopOnError = "true"
    /\ Failures # {}
    /\ Min(Failures) >= 2
    /\ Min(Failures) < Len(files)

\* C9: reads start in request order, one at a time, each settled before the
\* next starts; without cancellation and without stopOnError every file is
\* read once, processedCount is the number of files and
\* successCount + errorCount = processedCount.
C9_SequentialReadsOfAllFiles ==
    /\ started = [k \in 1..Len(started) |-> k - 1]
    /\ Len(started) - Len(fileDetails) = (IF pc = "reading" THEN 1 ELSE 0)
    /\ Len(candidates) = Len(fileDetails)
    /\ (pc = "done" /\ ~aborted /\ stopOnError # "true") =>
          /\ Len(started) = Len(files)
          /\ out.details.processedCount = Len(files)
          /\ out.details.successCount + out.details.errorCount
                = out.details.processedCount
          /\ \A k \in 1..Len(files) : fileDetails[k].path = files[k]

\* a failed read followed by a successful one
C9_Witness ==
    /\ pc = "done"
    /\ ~aborted
    /\ stopOnError # "true"
    /\ \E k \in 1..(Len(fileDetails) - 1) :
          ~fileDetails[k].ok /\ fileDetails[k + 1].ok

\* C10: when the loop comes to a file with the signal triggered, execute
\* throws: it starts no read and returns neither text nor details; it throws
\* for no other reason.
C10_CancellationFailsFast ==
    /\ [](pc = "thrown" =>
            /\ aborted
            /\ DOMAIN out = {"error"}
            /\ Len(started) = Len(fileDetails)
            /\ Len(fileDetails) < Len(files))
    /\ [][(aborted /\ pc \in {"start", "reading"} /\ pc' # "done") =>
            (pc' = "thrown" /\ started' = started)]_vars

\* thrown after a file was read successfully
C10_Witness ==
    /\ pc = "thrown"
    /\ Len(fileDetails) >= 1
    /\ fileDetails[1].ok


\* the candidates of a set of indexes fit the budget together as full blocks,
\* in whichever order they are packed
FitsTogether(indexes) ==
    \/ indexes = {}
    \/ /\ FullBytes([fullIncluded |-> indexes]) <= DEFAULT_MAX_BYTES
       /\ FullLines([fullIncluded |-> indexes]) <= DEFAULT_MAX_LINES

\* the most successful candidates any reordering fully fits within the budget
BestSuccessful ==
    Max(0, CHOOSE best \in 0..Len(candidates) :
        /\ \E indexes \in SUBSET (0..(Len(candidates) - 1)) :
              /\ FitsTogether(indexes)
              /\ Cardinality({k \in indexes : candidates[k + 1].ok}) = best
        /\ \A indexes \in SUBSET (0..(Len(candidates) - 1)) :
              FitsTogether(indexes) =>
                  Cardinality({k \in indexes : candidates[k + 1].ok}) <= best)

\* C11 as stated: whenever some reordering fully fits more successful
\* candidates than the request-order plan fully includes, the smallest-first
\* plan's fullSuccessCount is at least the request-order plan's.
C11_SmallestFirstNeverWorse ==
    pc = "done" =>
        (BestSuccessful > out.requestPlan.fullSuccessCount =>
            out.smallestPlan.fullSuccessCount >= out.requestPlan.fullSuccessCount)

\* C11, amended: whenever some reordering fully fits more successful
\* candidates than the request-order plan fully includes, the plan chosen
\* between the two has a fullSuccessCount at least the request-order plan's
\* and at least the smallest-first plan's; the smallest-first plan on its own
\* may have fewer.
C11_ChosenPlanNeverWorse ==
    pc = "done" =>
        (BestSuccessful > out.requestPlan.fullSuccessCount =>
            /\ out.plan.fullSuccessCount >= out.requestPlan.fullSuccessCount
            /\ out.plan.fullSuccessCount >= out.smallestPlan.fullSuccessCount
            /\ out.details.packing.fullIncludedSuccessCount = out.plan.fullSuccessCount)

\* a reordering fits more successes than request-order, smallest-first packs
\* an error block first and fits fewer, and request-order is kept
C11_Witness ==
    /\ pc = "done"
    /\ BestSuccessful > out.requestPlan.fullSuccessCount
    /\ out.smallestPlan.fullSuccessCount < out.requestPlan.fullSuccessCount
    /\ \E k \in out.smallestPlan.fullIncluded : ~candidates[k + 1].ok
    /\ out.plan.strategy = "request-order"


\* the indexes a plan omits
Omitted(plan) == {plan.omittedIndexes[k] : k \in 1..Len(plan.omittedIndexes)}

\* no failed read is the partial section of the plan: each is fully
\* included or omitted
ErrorsNeverPartial(plan) ==
    /\ plan.partialSection # <<>> => candidates[plan.partialSection[1].index + 1].ok
    /\ \A k \in 0..(Len(candidates) - 1) :
          ~candidates[k + 1].ok =>
              /\ candidates[k + 1].body = Absent
              /\ (k \in plan.fullIncluded) # (k \in Omitted(plan))

\* C12: the candidate of a failed read (ok false, no body) is never the
\* partial section of a plan; in both plans it is fully included or omitted,
\* and where the chosen plan includes it the rendered section is its complete
\* framed error block.
C12_FailedReadNeverPartial ==
    pc = "done" =>
        /\ ErrorsNeverPartial(out.requestPlan)
        /\ ErrorsNeverPartial(out.smallestPlan)
        /\ \A k \in 1..Len(out.sections) :
              ~candidates[out.sections[k].index + 1].ok =>
                  /\ out.sections[k].index \in out.plan.fullIncluded
                  /\ out.sections[k].text = candidates[out.sections[k].index + 1].fullText

\* a failed read whose block does not fit is omitted although the budget left
\* would have taken a partial section, and another failed read is fully
\* included
C12_Witness ==
    /\ pc = "done"
    /\ \E k \in Omitted(out.requestPlan) :
          /\ ~candidates[k + 1].ok
          /\ \A j \in 0..(k - 1) : j \in out.requestPlan.fullIncluded
    /\ out.requestPlan.partialSection = <<>>
    /\ out.requestPlan.sectionCount >= 1
    /\ out.requestPlan.usedLines + 1 + 4 <= DEFAULT_MAX_LINES
    /\ out.requestPlan.usedBytes + 2 + 32 <= DEFAULT_MAX_BYTES
    /\ \E k \in out.smallestPlan.fullIncluded : ~candidates[k + 1].ok


\* the partial section of a plan, if any, is of a candidate whose full block
\* does not fit after the plan's full blocks
PartialOnlyOnMiss(plan) ==
    plan.partialSection # <<>> =>
        ~canFitSection([usedBytes |-> FullBytes(plan), usedLines |-> FullLines(plan),
                        sectionCount |-> plan.fullCount],
                       candidates[plan.partialSection[1].index + 1].fullMetrics)

\* C13: under both strategies a candidate becomes the partial section only
\* when its full block, with the separator, does not fit the budget left by
\* the full-block pass.
C13_PartialOnlyWhenFullMisses ==
    pc = "done" =>
        /\ PartialOnlyOnMiss(out.requestPlan)
        /\ PartialOnlyOnMiss(out.smallestPlan)


\* the index of the partial section of a plan, as a set of at most one index
PartialIndex(plan) ==
    IF plan.partialSection = <<>> THEN {} ELSE {plan.partialSection[1].index}

\* full, partial and omitted indexes partition the candidates' indexes, the
\* omitted ones are listed in increasing order, and the counts agree
PlanPartitions(plan) ==
    /\ plan.fullIncluded \cap PartialIndex(plan) = {}
    /\ plan.fullIncluded \cap Omitted(plan) = {}
    /\ PartialIndex(plan) \cap Omitted(plan) = {}
    /\ plan.fullIncluded \cup PartialIndex(plan) \cup Omitted(plan)
          = 0..(Len(candidates) - 1)
    /\ \A a, b \in 1..Len(plan.omittedIndexes) :
          a < b => plan.omittedIndexes[a] < plan.omittedIndexes[b]
    /\ plan.fullCount = Cardinality(plan.fullIncluded)
    /\ plan.sectionCount = plan.fullCount + Cardinality(PartialIndex(plan))

\* C14: in every plan the fully included indexes, the partial section's index
\* and omittedIndexes are pairwise disjoint and together are exactly the
\* indexes of all candidates; omittedIndexes is strictly increasing, and
\* sectionCount = fullCount + (1 if there is a partial section, else 0).
C14_PlanPartitionsCandidates ==
    pc = "done" =>
        /\ PlanPartitions(out.requestPlan)
        /\ PlanPartitions(out.smallestPlan)

\* one plan with a partial section and two omitted candidates, the other with
\* a full block, a partial section and an omitted candidate
C14_Witness ==
    /\ pc = "done"
    /\ out.requestPlan.partialSection # <<>>
    /\ Len(out.requestPlan.omittedIndexes) >= 2
    /\ out.smallestPlan.fullCount >= 1
    /\ out.smallestPlan.partialSection # <<>>
    /\ Len(out.smallestPlan.omittedIndexes) >= 1

=============================================================================
